---- MODULE Spec2Model ----
(***************************************************************************)
(* A model of ffreplex: the stream catalog and its planner                 *)
(* (ffclient.py: read_streams, populate_generable_streams,                 *)
(* ff_get_command_args), the override slot of the main window              *)
(* (__init__.py: on_change) and the job scheduler of the main window       *)
(* (__init__.py: process_files, start_next_command, on_process_finish).    *)
(***************************************************************************)
EXTENDS Integers, Sequences, FiniteSets, TLC

(***************************************************************************)
(* Bounds of the model.                                                    *)
(***************************************************************************)
MaxFiles == 7
MaxW == 3
MaxBatches == 2
MaxStreams == 3

\* QSpinBox minimum of the "Threads" spin box.
SpinboxMinimum == 1

VARIABLES
    probed,                 \* the catalog read_streams built, as populate_generable_streams got it
    planned,                \* the catalog as read_streams returned it, before any on_change
    initial_streams,        \* self.initial_streams: the catalog read_streams built
    streams,                \* self.streams: the catalog with the generable streams
    command_args,           \* the outcome of ff_get_command_args on self.streams
    files,                  \* self.files: the files found, as job ids 0..N-1
    started,                \* self.started
    process_count,          \* self.process_count
    processes,              \* self.processes: slot -> [index, jobs]
    command_distribution,   \* self.command_distribution: slot -> queue of job ids
    commands,               \* self.commands: one command per file
    remaining_tasks,        \* self.remaining_tasks
    blocked,                \* the GUI thread spins in start_next_command's wait loop
    launched,               \* the start() calls of the current batch, in order
    completed,              \* jobs of the current batch whose finished signal was handled
    finished_lines,         \* '=== FINISHED ===' lines written for the current batch
    finish_events,          \* finished signals handled for the current batch
    batches                 \* batches distributed so far

sched_vars == <<files, started, process_count, processes, command_distribution,
                commands, remaining_tasks, blocked, launched, completed,
                finished_lines, finish_events, batches>>

plan_vars == <<probed, planned, initial_streams, streams, command_args>>

vars == <<plan_vars, sched_vars>>

(***************************************************************************)
(* Stream catalog and planner (ffclient.py).                               *)
(***************************************************************************)

\* Python's None where an index is expected (stream indices are >= 0)
None == -1

\* a 'from_compatible' that is None, and a stream without the key
NoneList == <<-1>>
Absent == <<-2>>

STANDARD_AUDIO_LAYOUTS ==
    <<"mono", "stereo", "downmix", "2.1", "3.0", "3.0(back)", "4.0", "quad",
      "quad(side)", "3.1", "5.0", "5.0(side)", "4.1", "5.1", "5.1(side)", "6.0",
      "6.0(front)", "hexagonal", "6.1", "6.1(back)", "6.1(front)", "7.0",
      "7.0(front)", "7.1", "7.1(wide)", "7.1(wide-side)", "7.1(top)", "octagonal",
      "cube", "hexadecagonal", "22.2">>

STEREO_COMPATIBLE == <<"stereo", "downmix">>
FIVE_ONE_COMPATIBLE == <<"5.1", "5.1(side)">>
SEVEN_ONE_COMPATIBLE == <<"7.1", "7.1(wide)", "7.1(wide-side)", "7.1(top)">>

\* the pan filter of both 'stereo' downmixes
StereoPan ==
    "volume=1.66, pan=stereo|c0=0.5*c2+0.707*c0+0.707*c4+0.5*c3|c1=0.5*c2+0.707*c1+0.707*c5+0.5*c3"

\* target layout -> downmixes (source layouts, filter, codec), in declaration order
COMPATIBLE_DOWNMIXES ==
    ("stereo" :> <<[sources |-> FIVE_ONE_COMPATIBLE, filter |-> StereoPan, codec |-> "aac_at"],
                   [sources |-> SEVEN_ONE_COMPATIBLE, filter |-> StereoPan, codec |-> "aac_at"]>>)
    @@ ("5.1" :> <<>>)

\* the elements of a list
Elems(list) == {list[i] : i \in DOMAIN list}

\* target layout -> set of the source layouts of all its downmixes
COMPATIBLE_DOWNMIX_LAYOUTS ==
    [key \in DOMAIN COMPATIBLE_DOWNMIXES |->
        UNION {Elems(COMPATIBLE_DOWNMIXES[key][r].sources) :
                   r \in DOMAIN COMPATIBLE_DOWNMIXES[key]}]

\* ff_create_empty_data()
ff_create_empty_data == [video |-> <<>>, audio |-> <<>>, subtitle |-> <<>>, other |-> <<>>]

\* STANDARD_AUDIO_LAYOUTS.index(layout), -1 for a layout that is not in the list
get_audio_layout_order(layout) ==
    IF layout \in Elems(STANDARD_AUDIO_LAYOUTS)
    THEN (CHOOSE i \in DOMAIN STANDARD_AUDIO_LAYOUTS :
              /\ STANDARD_AUDIO_LAYOUTS[i] = layout
              /\ \A j \in 1 .. (i - 1) : STANDARD_AUDIO_LAYOUTS[j] # layout) - 1
    ELSE -1

\* x put into a list sorted by descending quality, behind the streams of its own quality
RECURSIVE insert_by_quality(_, _)
insert_by_quality(sorted, x) ==
    IF sorted = <<>> THEN <<x>>
    ELSE IF get_audio_layout_order(Head(sorted).layout) < get_audio_layout_order(x.layout)
         THEN <<x>> \o sorted
         ELSE <<Head(sorted)>> \o insert_by_quality(Tail(sorted), x)

\* sorted(list, key=get_audio_layout_order(s['layout']), reverse=True): stable
RECURSIVE sort_from(_, _)
sort_from(sorted, list) ==
    IF list = <<>> THEN sorted
    ELSE sort_from(insert_by_quality(sorted, Head(list)), Tail(list))

sort_by_quality(list) == sort_from(<<>>, list)

\* list(filter(lambda stream: stream['layout'] in layouts, list))
RECURSIVE filter_layouts(_, _)
filter_layouts(list, layouts) ==
    IF list = <<>> THEN <<>>
    ELSE IF Head(list).layout \in layouts
         THEN <<Head(list)>> \o filter_layouts(Tail(list), layouts)
         ELSE filter_layouts(Tail(list), layouts)

\* [source['index'] for source in list]
indices_of(list) == [k \in DOMAIN list |-> list[k].index]

\* position of the language in the audio dict, 0 when it has no entry yet
lang_position(audio, lang) ==
    IF \E k \in DOMAIN audio : audio[k].lang = lang
    THEN CHOOSE k \in DOMAIN audio : audio[k].lang = lang
    ELSE 0

\* the loop over the probed records of read_streams
RECURSIVE read_records(_, _)
read_records(data, catalog) ==
    IF data = <<>> THEN catalog
    ELSE LET stream == Head(data)
             k == lang_position(catalog.audio, stream.language)
             entry == [index |-> stream.index, from_index |-> stream.index,
                       from_compatible |-> Absent, layout |-> stream.channel_layout]
             next ==
                 IF stream.codec_type = "video"
                 THEN [catalog EXCEPT !.video = Append(@, [index |-> stream.index])]
                 ELSE IF stream.codec_type = "audio"
                 THEN IF k = 0
                      THEN [catalog EXCEPT !.audio =
                               Append(@, [lang |-> stream.language, streams |-> <<entry>>])]
                      ELSE [catalog EXCEPT !.audio[k].streams = Append(@, entry)]
                 ELSE IF stream.codec_type = "subtitle"
                 THEN [catalog EXCEPT !.subtitle = Append(@, [index |-> stream.index])]
                 ELSE [catalog EXCEPT !.other = Append(@, [index |-> stream.index])]
         IN  read_records(Tail(data), next)

\* any(stream['layout'] in STEREO_COMPATIBLE for stream in streams)
audio_lang_has_stereo(list) ==
    \E k \in DOMAIN list : list[k].layout \in Elems(STEREO_COMPATIBLE)

\* a mutant of audio_lang_has_five: only the layout '5.1' itself counts
audio_lang_has_exact_five(list) ==
    \E k \in DOMAIN list : list[k].layout = "5.1"

\* any(stream['layout'] in FIVE_ONE_COMPATIBLE for stream in streams)
audio_lang_has_five(list) ==
    \E k \in DOMAIN list : list[k].layout \in Elems(FIVE_ONE_COMPATIBLE)

\* the first loop of populate_generable_streams on one existent stream
mark_existent(stream, existent) ==
    LET stereo_sources == filter_layouts(existent, COMPATIBLE_DOWNMIX_LAYOUTS["stereo"])
        five_sources == filter_layouts(existent, COMPATIBLE_DOWNMIX_LAYOUTS["5.1"])
        marked ==
            IF stream.layout \in Elems(STEREO_COMPATIBLE)
            THEN [stream EXCEPT !.from_compatible =
                     IF Len(stereo_sources) > 0 THEN indices_of(stereo_sources) ELSE NoneList]
            ELSE IF stream.layout \in Elems(FIVE_ONE_COMPATIBLE)
            THEN [stream EXCEPT !.from_compatible = indices_of(five_sources)]
            ELSE stream
    IN  [marked EXCEPT !.from_index = stream.index]

\* a mutant of generable_stereo: the last compatible source is chosen
generable_stereo_from_last(existent) ==
    LET compatible_sources == filter_layouts(existent, COMPATIBLE_DOWNMIX_LAYOUTS["stereo"])
    IN  [index |-> None,
         from_index |-> IF Len(compatible_sources) > 0
                        THEN compatible_sources[Len(compatible_sources)].index ELSE None,
         from_compatible |-> indices_of(compatible_sources),
         layout |-> "stereo"]

\* the generable 'stereo' stream of a language without a stereo stream
generable_stereo(existent) ==
    LET compatible_sources == filter_layouts(existent, COMPATIBLE_DOWNMIX_LAYOUTS["stereo"])
    IN  [index |-> None,
         from_index |-> IF Len(compatible_sources) > 0
                        THEN compatible_sources[1].index ELSE None,
         from_compatible |-> indices_of(compatible_sources),
         layout |-> "stereo"]

\* the generable '5.1' stream of a language without a 5.1 stream
generable_five(existent) ==
    [index |-> None,
     from_index |-> existent[1].index,
     from_compatible |-> Absent,
     layout |-> "5.1"]

\* populate_generable_streams on the streams of one language: the list of the
\* returned catalog, and the list of the argument, whose streams are the same
\* objects as the existent streams of the returned list
populate_lang(list) ==
    IF Len(list) = 0 THEN [plan |-> <<>>, existent |-> list]
    ELSE LET existent == [k \in DOMAIN list |-> mark_existent(list[k], list)]
             stereo == IF ~audio_lang_has_stereo(list)
                       THEN <<generable_stereo(existent)>> ELSE <<>>
             five == IF ~audio_lang_has_five(list)
                     THEN <<generable_five(existent)>> ELSE <<>>
         IN  [plan |-> sort_by_quality(existent \o stereo \o five),
              existent |-> existent]

\* populate_generable_streams(streams): the returned catalog, and the argument
\* as the call leaves it
populate_generable_streams(catalog) ==
    [plan |-> [video |-> catalog.video,
               audio |-> [k \in DOMAIN catalog.audio |->
                             [lang |-> catalog.audio[k].lang,
                              streams |-> populate_lang(catalog.audio[k].streams).plan]],
               subtitle |-> catalog.subtitle,
               other |-> catalog.other],
     streams |-> [catalog EXCEPT !.audio =
                     [k \in DOMAIN catalog.audio |->
                         [lang |-> catalog.audio[k].lang,
                          streams |-> populate_lang(catalog.audio[k].streams).existent]]]]

\* the catalog of read_streams when its audio streams are sorted by quality
read_sorted(data) ==
    LET read == read_records(data, ff_create_empty_data)
    IN  [read EXCEPT !.audio =
            [k \in DOMAIN read.audio |->
                [lang |-> read.audio[k].lang,
                 streams |-> sort_by_quality(read.audio[k].streams)]]]

\* read_streams on the probed records: (streams_with_generables, streams)
read_streams(data) == populate_generable_streams(read_sorted(data))

\* an option of the argument list that maps no stream
option(text) ==
    [opt |-> text, map |-> None, spec |-> "", out |-> None, codec |-> "", filter |-> ""]

\* "-map 0:{index} -c:{spec}:{out} {codec}", with -filter:a:{out} "{filter}" when
\* there is a filter; spec is "" in "-c:{out} {codec}"
mapping(index, spec, out, codec, filter) ==
    [opt |-> "-map", map |-> index, spec |-> spec, out |-> out, codec |-> codec,
     filter |-> filter]

\* a loop of ff_get_command_args over video, subtitle or other streams, the
\* first of them written to output index out
map_streams(list, spec, codec, out) ==
    [k \in DOMAIN list |-> mapping(list[k].index, spec, out + (k - 1), codec, "")]

\* the downmixes of COMPATIBLE_DOWNMIXES[layout] that take from_layout, in order
RECURSIVE downmixes_from(_, _)
downmixes_from(downmixes, from_layout) ==
    IF downmixes = <<>> THEN <<>>
    ELSE IF from_layout \in Elems(Head(downmixes).sources)
         THEN <<Head(downmixes)>> \o downmixes_from(Tail(downmixes), from_layout)
         ELSE downmixes_from(Tail(downmixes), from_layout)

\* the streams x of the language with x.get('index') == from_index, in order
RECURSIVE streams_with_index(_, _)
streams_with_index(list, from_index) ==
    IF list = <<>> THEN <<>>
    ELSE IF Head(list).index = from_index
         THEN <<Head(list)>> \o streams_with_index(Tail(list), from_index)
         ELSE streams_with_index(Tail(list), from_index)

\* a mutant of audio_stream_args: a removed stream takes an output index
audio_stream_args_counting_removed(stream, streams_of_lang, acc) ==
    IF stream.from_index = None THEN [acc EXCEPT !.out = @ + 1]
    ELSE IF stream.index # None /\ stream.from_index = stream.index
    THEN [acc EXCEPT !.args = Append(@, mapping(stream.from_index, "a", acc.out, "copy", "")),
                     !.out = @ + 1]
    ELSE LET found == streams_with_index(streams_of_lang, stream.from_index)
             downmixes ==
                 IF found = <<>> \/ stream.layout \notin DOMAIN COMPATIBLE_DOWNMIXES
                 THEN <<>>
                 ELSE downmixes_from(COMPATIBLE_DOWNMIXES[stream.layout], found[1].layout)
         IN  IF downmixes = <<>>
             THEN \* next() raises StopIteration, or the dict lookup raises KeyError
                  [acc EXCEPT !.error = TRUE]
             ELSE [acc EXCEPT !.args = Append(@, mapping(stream.from_index, "a", acc.out,
                                                         downmixes[1].codec,
                                                         downmixes[1].filter)),
                              !.out = @ + 1]

\* a mutant of audio_stream_args: the copy test takes index 0 for no index
audio_stream_args_truthy_index(stream, streams_of_lang, acc) ==
    IF stream.from_index = None THEN acc
    ELSE IF stream.index # None /\ stream.index # 0 /\ stream.from_index = stream.index
    THEN [acc EXCEPT !.args = Append(@, mapping(stream.from_index, "a", acc.out, "copy", "")),
                     !.out = @ + 1]
    ELSE LET found == streams_with_index(streams_of_lang, stream.from_index)
             downmixes ==
                 IF found = <<>> \/ stream.layout \notin DOMAIN COMPATIBLE_DOWNMIXES
                 THEN <<>>
                 ELSE downmixes_from(COMPATIBLE_DOWNMIXES[stream.layout], found[1].layout)
         IN  IF downmixes = <<>>
             THEN \* next() raises StopIteration, or the dict lookup raises KeyError
                  [acc EXCEPT !.error = TRUE]
             ELSE [acc EXCEPT !.args = Append(@, mapping(stream.from_index, "a", acc.out,
                                                         downmixes[1].codec,
                                                         downmixes[1].filter)),
                              !.out = @ + 1]

\* a mutant of audio_stream_args: a stream whose downmix is not found is skipped
audio_stream_args_skipping_unresolved(stream, streams_of_lang, acc) ==
    IF stream.from_index = None THEN acc
    ELSE IF stream.index # None /\ stream.from_index = stream.index
    THEN [acc EXCEPT !.args = Append(@, mapping(stream.from_index, "a", acc.out, "copy", "")),
                     !.out = @ + 1]
    ELSE LET found == streams_with_index(streams_of_lang, stream.from_index)
             downmixes ==
                 IF found = <<>> \/ stream.layout \notin DOMAIN COMPATIBLE_DOWNMIXES
                 THEN <<>>
                 ELSE downmixes_from(COMPATIBLE_DOWNMIXES[stream.layout], found[1].layout)
         IN  IF downmixes = <<>>
             THEN acc
             ELSE [acc EXCEPT !.args = Append(@, mapping(stream.from_index, "a", acc.out,
                                                         downmixes[1].codec,
                                                         downmixes[1].filter)),
                              !.out = @ + 1]

\* the body of the audio loop of ff_get_command_args for one stream;
\* acc = [error, args, out], out being current_audio_index_out
audio_stream_args(stream, streams_of_lang, acc) ==
    IF stream.from_index = None THEN acc
    ELSE IF stream.index # None /\ stream.from_index = stream.index
    THEN [acc EXCEPT !.args = Append(@, mapping(stream.from_index, "a", acc.out, "copy", "")),
                     !.out = @ + 1]
    ELSE LET found == streams_with_index(streams_of_lang, stream.from_index)
             downmixes ==
                 IF found = <<>> \/ stream.layout \notin DOMAIN COMPATIBLE_DOWNMIXES
                 THEN <<>>
                 ELSE downmixes_from(COMPATIBLE_DOWNMIXES[stream.layout], found[1].layout)
         IN  IF downmixes = <<>>
             THEN \* next() raises StopIteration, or the dict lookup raises KeyError
                  [acc EXCEPT !.error = TRUE]
             ELSE [acc EXCEPT !.args = Append(@, mapping(stream.from_index, "a", acc.out,
                                                         downmixes[1].codec,
                                                         downmixes[1].filter)),
                              !.out = @ + 1]

\* for stream in streams_of_lang
RECURSIVE audio_lang_args(_, _, _)
audio_lang_args(todo, streams_of_lang, acc) ==
    IF todo = <<>> \/ acc.error THEN acc
    ELSE audio_lang_args(Tail(todo), streams_of_lang,
                         audio_stream_args(Head(todo), streams_of_lang, acc))

\* for lang in streams['audio']
RECURSIVE audio_args(_, _)
audio_args(audio, acc) ==
    IF audio = <<>> \/ acc.error THEN acc
    ELSE audio_args(Tail(audio),
                    audio_lang_args(Head(audio).streams, Head(audio).streams, acc))

\* what a call of ff_get_command_args that raises leaves: no argument list
Raised == [error |-> TRUE, args |-> <<>>]

\* ff_get_command_args(streams): the arguments in order, or an exception
ff_get_command_args(catalog) ==
    LET options == <<option("-strict -2"), option("-global_quality:a 0")>>
        video == map_streams(catalog.video, "v", "copy", 0)
        current_video_index_out == Len(catalog.video)
        audio == audio_args(catalog.audio, [error |-> FALSE, args |-> <<>>, out |-> 0])
        current_audio_index_out == audio.out
        current_other_index_out == current_video_index_out + current_audio_index_out
        subtitle == map_streams(catalog.subtitle, "", "mov_text", current_other_index_out)
        other == map_streams(catalog.other, "", "copy",
                             current_other_index_out + Len(catalog.subtitle))
    IN  IF audio.error THEN Raised
        ELSE [error |-> FALSE,
              args |-> options \o video \o audio.args \o subtitle \o other]

\* the item data of the combo box of a stream's FFStreamWidget, in order
item_data(stream) ==
    (IF stream.index # None /\ stream.index # 0 THEN <<stream.index>> ELSE <<>>)
    \o (IF stream.from_compatible \notin {NoneList, Absent}
        THEN stream.from_compatible ELSE <<>>)
    \o <<None>>

(***************************************************************************)
(* Job scheduler (__init__.py).                                            *)
(***************************************************************************)

\* range(n) as a set
Range(n) == 0 .. (n - 1)

\* QProcess.state() of a slot's process: NotRunning when it runs no job
ProcessState(p) == IF p.jobs = {} THEN "NotRunning" ELSE "Running"

\* FFProcess(index=i): a fresh process, not running
FFProcess(i) == [index |-> i, jobs |-> {}]

\* ff_get_commands(files, streams, iostream): one command per file
ff_get_commands(fs) == [i \in 1 .. Len(fs) |-> fs[i]]

\* a mutant of distribute: the slot is chosen by (i + 1) % process_count
RECURSIVE distribute_shifted(_, _, _, _)
distribute_shifted(cd, i, n, w) ==
    IF i >= n THEN cd
    ELSE distribute_shifted([cd EXCEPT ![(i + 1) % w] = Append(@, i)], i + 1, n, w)

\* for i in range(remaining_tasks): command_distribution[i % process_count].append(i)
RECURSIVE distribute(_, _, _, _)
distribute(cd, i, n, w) ==
    IF i >= n THEN cd
    ELSE distribute([cd EXCEPT ![i % w] = Append(@, i)], i + 1, n, w)

\* command_distribution as process_files builds it, before anything is popped
build_distribution(n, w) == distribute([s \in Range(w) |-> <<>>], 0, n, w)

\* a mutant of pop_first: pop() takes the last element
pop_last(q) == [item |-> q[Len(q)], rest |-> SubSeq(q, 1, Len(q) - 1)]

\* list.pop(0): the first element and the list without it
pop_first(q) == [item |-> Head(q), rest |-> Tail(q)]

\* a mutant of start_next_command: no wait loop, and the start goes to the
\* first process whatever the index
start_next_command_first_process(st, index) ==
    IF st.blocked THEN st
    ELSE IF Len(st.cd[index]) = 0 THEN st
    ELSE LET p == pop_first(st.cd[index])
         IN  [st EXCEPT
                 !.cd[index] = p.rest,
                 !.procs[0].jobs = @ \cup {p.item},
                 !.launched = Append(@, [job |-> p.item, thread |-> 0])]

\* start_next_command(index) on the scheduler state st
\*   st = [cd, procs, launched, blocked]
start_next_command(st, index) ==
    IF st.blocked THEN st
    ELSE IF Len(st.cd[index]) = 0 THEN st
    ELSE LET p == pop_first(st.cd[index])
             next_command_id == p.item
             popped == [st EXCEPT !.cd[index] = p.rest]
         IN  IF ProcessState(st.procs[index]) # "NotRunning"
             THEN \* the wait loop never returns: no Qt event is handled while it sleeps
                  [popped EXCEPT !.blocked = TRUE]
             ELSE [popped EXCEPT
                      !.procs[index].jobs = @ \cup {next_command_id},
                      !.launched = Append(@, [job |-> next_command_id, thread |-> index])]

\* a mutant of start_all: only the first process is started
start_first_only(st, i, w) == start_next_command(st, st.procs[0].index)

\* for process in self.processes: ...; self.start_next_command(process.index)
RECURSIVE start_all(_, _, _)
start_all(st, i, w) ==
    IF i >= w THEN st
    ELSE start_all(start_next_command(st, st.procs[i].index), i + 1, w)

\* process_files, pressed while no batch is started; ff_get_commands raises
\* when the plan cannot be synthesized and the handler is left at that point
process_files ==
    /\ ~blocked
    /\ ~started
    /\ batches < MaxBatches
    /\ started' = TRUE
    /\ \E ok \in BOOLEAN, w \in SpinboxMinimum .. MaxW :
         IF ~ok
         THEN UNCHANGED <<files, process_count, processes, command_distribution,
                          commands, remaining_tasks, blocked, launched, completed,
                          finished_lines, finish_events, batches>>
         ELSE LET cmds == ff_get_commands(files)
                  n == Len(cmds)
                  st0 == [cd |-> build_distribution(n, w),
                          procs |-> [s \in Range(w) |-> FFProcess(s)],
                          launched |-> <<>>,
                          blocked |-> FALSE]
                  st1 == start_all(st0, 0, w)
              IN  /\ commands' = cmds
                  /\ process_count' = w
                  /\ remaining_tasks' = n
                  /\ command_distribution' = st1.cd
                  /\ processes' = st1.procs
                  /\ launched' = st1.launched
                  /\ blocked' = st1.blocked
                  /\ completed' = {}
                  /\ finished_lines' = 0
                  /\ finish_events' = 0
                  /\ batches' = batches + 1
                  /\ UNCHANGED files
    /\ UNCHANGED plan_vars

\* a mutant of process_files_started: no test of self.started, the files are
\* distributed and started again
process_files_restarting ==
    /\ ~blocked
    /\ started
    /\ batches < MaxBatches
    /\ \E w \in SpinboxMinimum .. MaxW :
         LET cmds == ff_get_commands(files)
             n == Len(cmds)
             st0 == [cd |-> build_distribution(n, w),
                     procs |-> [s \in Range(w) |-> FFProcess(s)],
                     launched |-> <<>>,
                     blocked |-> FALSE]
             st1 == start_all(st0, 0, w)
         IN  /\ commands' = cmds
             /\ process_count' = w
             /\ remaining_tasks' = n
             /\ command_distribution' = st1.cd
             /\ processes' = st1.procs
             /\ launched' = st1.launched
             /\ blocked' = st1.blocked
             /\ completed' = {}
             /\ finished_lines' = 0
             /\ finish_events' = 0
             /\ batches' = batches + 1
    /\ UNCHANGED <<files, started>>
    /\ UNCHANGED plan_vars

\* process_files pressed while a batch is started: returns at once
process_files_started ==
    /\ ~blocked
    /\ started
    /\ UNCHANGED vars

\* a mutant of batch_drained: the batch counts as drained when the slot's queue is empty
slot_drained(remaining, cd, s) == Len(cd[s]) = 0

\* if self.remaining_tasks == 0
batch_drained(remaining, cd, s) == remaining = 0

\* the finished signal of the process of slot s, for its job j
on_process_finish(s, j) ==
    /\ ~blocked
    /\ s \in DOMAIN processes
    /\ j \in processes[s].jobs
    /\ LET exited == [processes EXCEPT ![s].jobs = @ \ {j}]
           remaining == remaining_tasks - 1
       IN  /\ remaining_tasks' = remaining
           /\ completed' = completed \cup {j}
           /\ finish_events' = finish_events + 1
           /\ IF batch_drained(remaining, command_distribution, s)
              THEN /\ started' = FALSE
                   /\ finished_lines' = finished_lines + 1
                   /\ processes' = exited
                   /\ UNCHANGED <<command_distribution, launched, blocked>>
              ELSE LET st == start_next_command(
                                 [cd |-> command_distribution, procs |-> exited,
                                  launched |-> launched, blocked |-> blocked],
                                 exited[s].index)
                   IN  /\ command_distribution' = st.cd
                       /\ processes' = st.procs
                       /\ launched' = st.launched
                       /\ blocked' = st.blocked
                       /\ UNCHANGED <<started, finished_lines>>
    /\ UNCHANGED <<files, process_count, commands, batches>>
    /\ UNCHANGED plan_vars

\* command_args before anything was synthesized
NoArgs == [error |-> FALSE, args |-> <<>>]

\* the scheduler's state when the window is built
SchedulerInit ==
    /\ started = FALSE
    /\ process_count = 1
    /\ processes = <<>>
    /\ command_distribution = <<>>
    /\ commands = <<>>
    /\ remaining_tasks = 0
    /\ blocked = FALSE
    /\ launched = <<>>
    /\ completed = {}
    /\ finished_lines = 0
    /\ finish_events = 0
    /\ batches = 0

Init ==
    /\ probed = ff_create_empty_data
    /\ planned = ff_create_empty_data
    /\ initial_streams = ff_create_empty_data
    /\ streams = ff_create_empty_data
    /\ command_args = NoArgs
    /\ SchedulerInit
    /\ files \in {[i \in 1 .. n |-> i - 1] : n \in 1 .. MaxFiles}

Next ==
    \/ process_files
    \/ process_files_started
    \/ \E s \in Range(MaxW + 1), j \in Range(MaxFiles + 1) : on_process_finish(s, j)

Spec == Init /\ [][Next]_vars

(***************************************************************************)
(* The plan of one reference file: probing, overrides, synthesis.          *)
(***************************************************************************)

\* the audio streams probed: the layouts of interest in one language, and a
\* second language with 'downmix' streams
ProbedLayouts == {"mono", "stereo", "5.1", "5.1(side)", "7.1"}
ProbedAudio ==
    [codec_type : {"audio"}, channel_layout : ProbedLayouts, language : {"eng"}]
    \cup [codec_type : {"audio"}, channel_layout : {"downmix"}, language : {"fre"}]

\* what ffprobe can report for one stream, its index apart
ProbedStreams ==
    [codec_type : {"video", "subtitle", "data"}, channel_layout : {""}, language : {""}]
    \cup ProbedAudio

\* the records of ffprobe: stream k of the file has index k
ProbedData ==
    UNION {{[k \in 1 .. n |->
                [index |-> k - 1, codec_type |-> d[k].codec_type,
                 channel_layout |-> d[k].channel_layout, language |-> d[k].language]] :
            d \in [1 .. n -> ProbedStreams]} : n \in 1 .. MaxStreams}

\* the existent stream of the list that is the object with this index
same_object(list, index, new_index) ==
    [k \in DOMAIN list |->
        IF index # None /\ list[k].index = index
        THEN [list[k] EXCEPT !.from_index = new_index]
        ELSE list[k]]

\* a mutant of set_from_index: the new source is written to every stream of the language
set_from_index_whole_language(catalog, l, e, new_index) ==
    [catalog EXCEPT !.audio[l].streams =
        [k \in DOMAIN @ |-> [@[k] EXCEPT !.from_index = new_index]]]

\* stream['from_index'] = new_index, for stream e of language l of a catalog
set_from_index(catalog, l, e, new_index) ==
    [catalog EXCEPT !.audio[l].streams[e].from_index = new_index]

\* on_change((stream, new_index)) for stream e of language l, new_index being
\* the data of an item of the stream's combo box; the stream widgets are
\* disabled while a batch is started
on_change(l, e, new_index) ==
    /\ ~started
    /\ l \in DOMAIN streams.audio
    /\ e \in DOMAIN streams.audio[l].streams
    /\ new_index \in Elems(item_data(streams.audio[l].streams[e]))
    /\ streams' = set_from_index(streams, l, e, new_index)
    /\ initial_streams' =
           [initial_streams EXCEPT !.audio[l].streams =
               same_object(@, streams.audio[l].streams[e].index, new_index)]
    /\ UNCHANGED <<probed, planned, command_args, sched_vars>>

\* START pressed on the plan: process_files as far as the synthesis of the
\* commands from self.streams
start_pressed ==
    /\ ~started
    /\ started' = TRUE
    /\ command_args' = ff_get_command_args(streams)
    /\ UNCHANGED <<probed, planned, initial_streams, streams, files, process_count, processes,
                   command_distribution, commands, remaining_tasks, blocked, launched,
                   completed, finished_lines, finish_events, batches>>

PlanInit ==
    /\ \E data \in ProbedData :
         LET read == read_streams(data)
         IN  /\ probed = read_sorted(data)
             /\ planned = read.plan
             /\ streams = read.plan
             /\ initial_streams = read.streams
    /\ command_args = NoArgs
    /\ files = <<0>>
    /\ SchedulerInit

PlanNext ==
    \/ \E l \in 1 .. MaxStreams, e \in 1 .. (MaxStreams + 2),
         new_index \in Range(MaxStreams) \cup {None} : on_change(l, e, new_index)
    \/ start_pressed

PlanSpec == PlanInit /\ [][PlanNext]_vars

\* every launched process eventually emits its finished signal
LiveSpec ==
    /\ Init
    /\ [][Next]_vars
    /\ \A s \in Range(MaxW + 1) :
         WF_vars(\E j \in Range(MaxFiles + 1) : on_process_finish(s, j))

(***************************************************************************)
(* Properties of the planner and of the command synthesis.                 *)
(***************************************************************************)

\* the streams of all languages of a catalog, in the order of the audio loop
RECURSIVE AllAudio(_)
AllAudio(audio) ==
    IF audio = <<>> THEN <<>> ELSE Head(audio).streams \o AllAudio(Tail(audio))

\* the positions of the generable streams of a layout in a language's list
Generable(list, layout) ==
    {e \in DOMAIN list : list[e].index = None /\ list[e].layout = layout}

\* some stream of the list has one of the layouts
HasLayout(list, layouts) == \E k \in DOMAIN list : list[k].layout \in layouts

\* the number of streams of the list with the layout
CountLayout(list, layout) == Cardinality({k \in DOMAIN list : list[k].layout = layout})

\* the layout of the stream of the list with the index
LayoutOf(list, index) == (CHOOSE k \in DOMAIN list : list[k].index = index)

\* the arguments that map a stream
Mappings(args) == SelectSeq(args, LAMBDA a : a.opt = "-map")
AudioMappings(args) == SelectSeq(args, LAMBDA a : a.opt = "-map" /\ a.spec = "a")

\* the audio streams of a catalog that have a source
Kept(catalog) == SelectSeq(AllAudio(catalog.audio), LAMBDA x : x.from_index # None)

\* the source layouts of the 'stereo' downmixes
StereoSourceLayouts ==
    {"5.1", "5.1(side)", "7.1", "7.1(wide)", "7.1(wide-side)", "7.1(top)"}

\* a list of stream indices in descending quality, streams of one quality in
\* encounter order
BestFirst(c, list) ==
    \A i \in DOMAIN c, j \in DOMAIN c :
        i < j =>
            LET qi == get_audio_layout_order(list[LayoutOf(list, c[i])].layout)
                qj == get_audio_layout_order(list[LayoutOf(list, c[j])].layout)
            IN  qi > qj \/ (qi = qj /\ c[i] < c[j])

\* the language's only tracks are 'stereo' tracks
OnlyStereo(l) ==
    \A k \in DOMAIN initial_streams.audio[l].streams :
        initial_streams.audio[l].streams[k].layout = "stereo"

\* C6 (as claimed): in a language whose only tracks are 'stereo' the planned
\* generable '5.1' stream has no candidate source and no chosen source, and the
\* synthesis of the planned catalog skips it: no error, a copy per track.
C6_StereoOnlyUnresolved ==
    /\ \A l \in DOMAIN planned.audio :
         OnlyStereo(l) =>
             LET P == planned.audio[l].streams
             IN  /\ Generable(P, "5.1") # {}
                 /\ \A e \in Generable(P, "5.1") :
                      /\ P[e].from_compatible \in {<<>>, NoneList, Absent}
                      /\ P[e].from_index = None
    /\ (started /\ streams = planned /\ \A l \in DOMAIN planned.audio : OnlyStereo(l)) =>
           /\ ~command_args.error
           /\ Len(AudioMappings(command_args.args)) = Len(AllAudio(initial_streams.audio))

\* C7: in a language without a stereo-compatible track the generable 'stereo'
\* stream lists exactly the tracks with a source layout of a 'stereo' downmix,
\* best quality first, and its planned source is the first of them or none;
\* with the tracks '5.1' and 'mono' both are kept, 'stereo' is planned from the
\* '5.1' track, and the command copies both and downmixes the '5.1' track.
C7_StereoCandidates ==
    /\ \A l \in DOMAIN planned.audio :
         LET orig == initial_streams.audio[l].streams
             P == planned.audio[l].streams
         IN  ~HasLayout(orig, {"stereo", "downmix"}) =>
                 \E e \in Generable(P, "stereo") :
                     LET c == P[e].from_compatible
                     IN  /\ Elems(c) = {orig[k].index : k \in
                                {k \in DOMAIN orig : orig[k].layout \in StereoSourceLayouts}}
                         /\ Len(c) = Cardinality(Elems(c))
                         /\ BestFirst(c, orig)
                         /\ P[e].from_index = (IF c = <<>> THEN None ELSE c[1])
    /\ \A l \in DOMAIN planned.audio :
         LET orig == initial_streams.audio[l].streams
             P == planned.audio[l].streams
         IN  (Len(orig) = 2 /\ CountLayout(orig, "5.1") = 1 /\ CountLayout(orig, "mono") = 1) =>
                 /\ Len(P) = 3
                 /\ \E a \in DOMAIN P, b \in DOMAIN P, e \in DOMAIN P :
                      /\ P[a].layout = "5.1" /\ P[a].index # None
                      /\ P[a].from_index = P[a].index
                      /\ P[b].layout = "mono" /\ P[b].index # None
                      /\ P[b].from_index = P[b].index
                      /\ P[e].layout = "stereo" /\ P[e].index = None
                      /\ P[e].from_index = P[a].index
                 /\ (started /\ streams = planned /\ Len(planned.audio) = 1) =>
                      LET am == AudioMappings(command_args.args)
                      IN  /\ ~command_args.error
                          /\ Len(am) = 3
                          /\ \E a \in DOMAIN P, b \in DOMAIN P, x \in 1 .. 3, y \in 1 .. 3, z \in 1 .. 3 :
                               /\ P[a].layout = "5.1" /\ P[b].layout = "mono"
                               /\ {x, y, z} = {1, 2, 3}
                               /\ am[x].map = P[a].index /\ am[x].codec = "copy"
                               /\ am[x].filter = ""
                               /\ am[y].map = P[b].index /\ am[y].codec = "copy"
                               /\ am[y].filter = ""
                               /\ am[z].map = P[a].index /\ am[z].codec = "aac_at"
                               /\ am[z].filter = StereoPan

\* the planned catalog of a '5.1' and a 'mono' track was synthesized: three
\* audio mappings
C7_Witness ==
    /\ started /\ streams = planned /\ ~command_args.error
    /\ Len(planned.audio) = 1
    /\ Len(initial_streams.audio[1].streams) = 2
    /\ CountLayout(initial_streams.audio[1].streams, "5.1") = 1
    /\ CountLayout(initial_streams.audio[1].streams, "mono") = 1
    /\ Len(AudioMappings(command_args.args)) = 3

\* C8: a language has a generable 'stereo' stream exactly when none of its
\* tracks is 'stereo' or 'downmix', a generable '5.1' stream exactly when none
\* is '5.1' or '5.1(side)', one of each at most, and no other generable stream.
C8_GenerableIffMissing ==
    /\ DOMAIN streams.audio = DOMAIN initial_streams.audio
    /\ \A l \in DOMAIN streams.audio :
         LET orig == initial_streams.audio[l].streams
             P == streams.audio[l].streams
         IN  /\ Cardinality(Generable(P, "stereo"))
                    = (IF HasLayout(orig, {"stereo", "downmix"}) THEN 0 ELSE 1)
             /\ Cardinality(Generable(P, "5.1"))
                    = (IF HasLayout(orig, {"5.1", "5.1(side)"}) THEN 0 ELSE 1)
             /\ \A e \in DOMAIN P : P[e].index = None => P[e].layout \in {"stereo", "5.1"}
             /\ Len(P) = Len(orig) + Cardinality({e \in DOMAIN P : P[e].index = None})

\* a language with a 'stereo' and a '5.1(side)' track has no generable stream
\* while another language, with a 'downmix' track, has a generable '5.1' stream
C8_Witness ==
    /\ Len(streams.audio) = 2
    /\ HasLayout(initial_streams.audio[1].streams, {"stereo"})
    /\ HasLayout(initial_streams.audio[1].streams, {"5.1(side)"})
    /\ Len(streams.audio[1].streams) = 2
    /\ HasLayout(initial_streams.audio[2].streams, {"downmix"})
    /\ Generable(streams.audio[2].streams, "5.1") # {}
    /\ Generable(streams.audio[2].streams, "stereo") = {}

\* C9: an audio stream without a source adds no argument and takes no output
\* index: the mappings are the video streams (v, 0..), then the audio streams
\* with a source (a, 0..k-1 in order), then the subtitle and the other streams,
\* numbered on from the video count plus k.
C9_OutputIndices ==
    (started /\ ~command_args.error) =>
        LET maps == Mappings(command_args.args)
            kept == Kept(streams)
            V == Len(streams.video)
            k == Len(kept)
            S == Len(streams.subtitle)
            O == Len(streams.other)
        IN  /\ Len(command_args.args) = 2 + Len(maps)
            /\ Len(maps) = V + k + S + O
            /\ \A i \in 1 .. V :
                 /\ maps[i].spec = "v" /\ maps[i].out = i - 1
                 /\ maps[i].map = streams.video[i].index
            /\ \A i \in 1 .. k :
                 /\ maps[V + i].spec = "a" /\ maps[V + i].out = i - 1
                 /\ maps[V + i].map = kept[i].from_index
            /\ \A i \in 1 .. S :
                 /\ maps[V + k + i].spec = "" /\ maps[V + k + i].out = V + k + i - 1
                 /\ maps[V + k + i].map = streams.subtitle[i].index
            /\ \A i \in 1 .. O :
                 /\ maps[V + k + S + i].spec = ""
                 /\ maps[V + k + S + i].out = V + k + S + i - 1
                 /\ maps[V + k + S + i].map = streams.other[i].index

\* a video, an audio and a subtitle stream are mapped although the generable
\* stream before the audio track has no source
C9_Witness ==
    /\ started /\ ~command_args.error
    /\ Len(streams.video) = 1 /\ Len(streams.subtitle) = 1
    /\ Len(streams.audio) = 1
    /\ Len(streams.audio[1].streams) = 2
    /\ streams.audio[1].streams[1].from_index = None
    /\ streams.audio[1].streams[2].from_index # None
    /\ Len(command_args.args) = 5

\* every audio stream has its own index for source, a generable one none
AllKeptAsIs(catalog) ==
    \A k \in DOMAIN AllAudio(catalog.audio) :
        AllAudio(catalog.audio)[k].from_index = AllAudio(catalog.audio)[k].index

Converted(x) == x.from_index # None /\ ~(x.index # None /\ x.from_index = x.index)

\* the positions of the downmixes of a target layout whose source layouts
\* contain the layout of the stream of the list with index from_index
MatchingRules(list, layout, from_index) ==
    IF layout \notin DOMAIN COMPATIBLE_DOWNMIXES THEN {}
    ELSE {r \in DOMAIN COMPATIBLE_DOWNMIXES[layout] :
              \E k \in DOMAIN list :
                  /\ list[k].index = from_index
                  /\ list[k].layout \in Elems(COMPATIBLE_DOWNMIXES[layout][r].sources)}

\* the converted streams of a language that no downmix covers
Unresolved(list) ==
    {e \in DOMAIN list :
         Converted(list[e]) /\ MatchingRules(list, list[e].layout, list[e].from_index) = {}}

\* the streams with a source, each with the downmixes that match it
RECURSIVE KeptWithRules(_)
KeptWithRules(audio) ==
    IF audio = <<>> THEN <<>>
    ELSE LET list == Head(audio).streams
             tagged == [e \in DOMAIN list |->
                           [stream |-> list[e],
                            rules |-> MatchingRules(list, list[e].layout, list[e].from_index),
                            layout |-> list[e].layout]]
         IN  SelectSeq(tagged, LAMBDA t : t.stream.from_index # None)
                 \o KeptWithRules(Tail(audio))

\* C11: the synthesis raises and returns no argument list exactly when some
\* converted stream (a source other than its own index) has no downmix for
\* its target layout that takes the source's layout; it neither skips such a
\* stream nor maps it, and a converted stream that has downmixes is mapped
\* with the filter and the codec of the first of them in declaration order.
C11_UnresolvedRaises ==
    started =>
        /\ command_args.error <=> (\E l \in DOMAIN streams.audio :
                                       Unresolved(streams.audio[l].streams) # {})
        /\ command_args.error => command_args.args = <<>>
        /\ ~command_args.error =>
             LET am == AudioMappings(command_args.args)
                 kept == KeptWithRules(streams.audio)
             IN  /\ Len(am) = Len(kept)
                 /\ \A i \in DOMAIN kept :
                      /\ am[i].map = kept[i].stream.from_index
                      /\ Converted(kept[i].stream) =>
                           LET first == CHOOSE r \in kept[i].rules :
                                            \A q \in kept[i].rules : r <= q
                               rule == COMPATIBLE_DOWNMIXES[kept[i].layout][first]
                           IN  /\ kept[i].rules # {}
                               /\ am[i].codec = rule.codec
                               /\ am[i].filter = rule.filter

\* a '7.1' track alone: its language's generable 'stereo' stream has a
\* downmix, the generable '5.1' stream has a source and none, and the
\* synthesis of the plan raised
C11_Witness ==
    /\ started /\ command_args = Raised
    /\ Len(streams.audio) = 1
    /\ \E e \in Unresolved(streams.audio[1].streams) :
         streams.audio[1].streams[e].layout = "5.1"
    /\ \E e \in DOMAIN streams.audio[1].streams :
         /\ streams.audio[1].streams[e].layout = "stereo"
         /\ Converted(streams.audio[1].streams[e])
         /\ e \notin Unresolved(streams.audio[1].streams)

\* a catalog without the sources of its audio streams: the lists, their order
\* and every field but from_index
Sourceless(catalog) ==
    [catalog EXCEPT !.audio =
        [l \in DOMAIN catalog.audio |->
            [lang |-> catalog.audio[l].lang,
             streams |-> [e \in DOMAIN catalog.audio[l].streams |->
                             [catalog.audio[l].streams[e] EXCEPT !.from_index = None]]]]]

\* C12: whatever on_change signals there were, the catalog has the planned
\* streams in the planned order with every field but the source as planned,
\* and a further on_change signal for a stream leaves its value as the source
\* of that stream and a catalog that differs in nothing else from the one
\* before: each stream's source is the last value signalled for it, or the
\* planned one.
C12_LastOverrideWins ==
    /\ Sourceless(streams) = Sourceless(planned)
    /\ ~started =>
         \A l \in DOMAIN streams.audio :
             \A e \in DOMAIN streams.audio[l].streams :
                 \A v \in Elems(item_data(streams.audio[l].streams[e])) :
                     LET after == set_from_index(streams, l, e, v)
                         before == streams.audio[l].streams[e].from_index
                     IN  /\ after.audio[l].streams[e].from_index = v
                         /\ [after EXCEPT !.audio[l].streams[e].from_index = before]
                                = streams

\* of a '7.1' track, a '5.1' track and their generable 'stereo' stream the
\* first is removed, the second is as planned and the third is generated from
\* the second candidate in place of the planned first
C12_Witness ==
    /\ Len(streams.audio) = 1
    /\ Sourceless(streams) = Sourceless(planned)
    /\ LET P == planned.audio[1].streams
           S == streams.audio[1].streams
       IN  /\ Len(S) = 3
           /\ \E a \in DOMAIN S, b \in DOMAIN S, g \in DOMAIN S :
                /\ S[a].layout = "7.1" /\ P[a].from_index = S[a].index
                /\ S[a].from_index = None
                /\ S[b].layout = "5.1" /\ S[b].from_index = P[b].from_index
                /\ S[g].layout = "stereo" /\ S[g].index = None
                /\ Len(S[g].from_compatible) = 2
                /\ P[g].from_index = S[g].from_compatible[1]
                /\ S[g].from_index = S[g].from_compatible[2]

\* C13 (as claimed): the catalog that populate_generable_streams was given,
\* the one read_streams returns as the initial catalog, is after planning and
\* after every on_change what it was before planning, in every list and in
\* every field of every stream.
C13_InputUntouched == initial_streams = probed

(***************************************************************************)
(* Properties of the job scheduler.                                        *)
(***************************************************************************)

\* the jobs started on slot s in the current batch, in start order
RECURSIVE LaunchedOn(_, _)
LaunchedOn(log, s) ==
    IF log = <<>> THEN <<>>
    ELSE IF Head(log).thread = s
         THEN <<Head(log).job>> \o LaunchedOn(Tail(log), s)
         ELSE LaunchedOn(Tail(log), s)

\* the jobs running on all slots together
RunningJobs == UNION {processes[s].jobs : s \in DOMAIN processes}

\* s, s + w, s + 2w, ... below n
SlotJobs(s, n, w) ==
    [k \in 1 .. Cardinality({i \in Range(n) : i % w = s}) |-> s + (k - 1) * w]

\* C1: in a batch of N jobs the '=== FINISHED ===' transition is taken exactly
\* once, at the N-th finished signal and not before, and no finished signal
\* follows it, whatever the order in which the slots' processes complete.
C1_DrainedOnceAtNth ==
    batches > 0 =>
        /\ finish_events <= Len(commands)
        /\ finished_lines = (IF finish_events = Len(commands) THEN 1 ELSE 0)
        /\ remaining_tasks = Len(commands) - finish_events

\* a batch of 4 jobs on 2 slots is drained although a later job of one slot
\* was started before an earlier job of the other
C1_Witness ==
    /\ batches > 0 /\ Len(commands) = 4 /\ process_count = 2
    /\ finished_lines = 1 /\ finish_events = 4
    /\ \E a, b \in 1 .. Len(launched) : a < b /\ launched[a].job > launched[b].job

\* C2: every slot runs at most one process at a time, a process is started on
\* a slot only when the slot runs nothing, and at most process_count processes
\* run together.
C2_OnePerSlot ==
    /\ \A s \in DOMAIN processes : Cardinality(processes[s].jobs) <= 1
    /\ \A s \in DOMAIN processes, t \in DOMAIN processes :
         s # t => processes[s].jobs \cap processes[t].jobs = {}
    /\ Cardinality(RunningJobs) <= process_count
    /\ ~blocked

\* three slots run a process each and a slot has been refilled after a completion
C2_Witness ==
    /\ process_count = 3
    /\ Cardinality(RunningJobs) = 3
    /\ completed # {}
    /\ Len(launched) > 3

\* C3: the jobs of one slot are started in the order they were enqueued
\* (ascending job index), each only after the finished signal of the slot's
\* previous job.
C3_SlotOrder ==
    \A a \in 1 .. Len(launched), b \in 1 .. Len(launched) :
        (a < b /\ launched[a].thread = launched[b].thread) =>
            /\ launched[a].job < launched[b].job
            /\ launched[a].job \in completed

\* a slot has started its third job while another slot still runs its first:
\* job 4 of slot 0 is started before job 3 of slot 1
C3_Witness ==
    /\ process_count = 2
    /\ Len(LaunchedOn(launched, 0)) = 3
    /\ Len(LaunchedOn(launched, 1)) = 1
    /\ 1 \in RunningJobs

\* C4: a distributed batch is eventually drained (remaining_tasks = 0, started
\* reset) with every job started exactly once, surplus slots staying idle.
C4_Drains ==
    (started /\ remaining_tasks > 0) ~>
        (/\ ~started
         /\ remaining_tasks = 0
         /\ Len(launched) = Len(commands)
         /\ {launched[k].job : k \in 1 .. Len(launched)} = Range(Len(commands))
         /\ \A k \in 1 .. Len(launched) : launched[k].thread < Len(commands))

\* a batch of 2 jobs on 3 slots is drained and the third slot never started anything
C4_Witness ==
    /\ batches > 0 /\ ~started /\ remaining_tasks = 0
    /\ Len(commands) = 2 /\ process_count = 3
    /\ Len(launched) = 2
    /\ LaunchedOn(launched, 2) = <<>>

\* C5: job i is enqueued to slot i mod W and every queue is in ascending job
\* order, so what a slot has started followed by what its queue still holds is
\* s, s + W, s + 2W, ...; for 7 jobs on 3 slots: [0,3,6], [1,4], [2,5].
C5_RoundRobin ==
    batches > 0 =>
        /\ DOMAIN command_distribution = Range(process_count)
        /\ \A s \in Range(process_count) :
             LaunchedOn(launched, s) \o command_distribution[s]
                 = SlotJobs(s, Len(commands), process_count)
        /\ (Len(commands) = 7 /\ process_count = 3) =>
             /\ LaunchedOn(launched, 0) \o command_distribution[0] = <<0, 3, 6>>
             /\ LaunchedOn(launched, 1) \o command_distribution[1] = <<1, 4>>
             /\ LaunchedOn(launched, 2) \o command_distribution[2] = <<2, 5>>

\* 7 jobs on 3 slots right after process_files: the heads are started
C5_Witness ==
    /\ started /\ Len(commands) = 7 /\ process_count = 3
    /\ launched = <<[job |-> 0, thread |-> 0], [job |-> 1, thread |-> 1],
                    [job |-> 2, thread |-> 2]>>
    /\ command_distribution[0] = <<3, 6>>
    /\ command_distribution[1] = <<4>>
    /\ command_distribution[2] = <<5>>

\* C14: a batch that has jobs left is started; while started is TRUE nothing
\* but a finished signal changes remaining_tasks, the queues, the processes or
\* what was launched, so that a START press changes nothing and launches
\* nothing; started goes from TRUE to FALSE only with the finished signal
\* that takes remaining_tasks to 0, and from FALSE to TRUE only in process_files.
C14_StartedGuards ==
    /\ [](remaining_tasks > 0 => started)
    /\ [][/\ process_files_started =>
               UNCHANGED <<started, remaining_tasks, command_distribution, processes,
                           launched>>
          /\ started =>
               /\ UNCHANGED <<batches, commands, process_count>>
               /\ \/ UNCHANGED <<remaining_tasks, command_distribution, processes,
                                 launched, RunningJobs>>
                  \/ /\ finish_events' = finish_events + 1
                     /\ remaining_tasks' = remaining_tasks - 1
          /\ (started /\ ~started') =>
               /\ remaining_tasks = 1 /\ remaining_tasks' = 0
               /\ finished_lines' = finished_lines + 1
          /\ (~started /\ started') => process_files]_vars

\* the first batch was drained, START was pressed again and the second batch
\* is in progress: jobs run, a job has finished and jobs are left
C14_Witness ==
    /\ batches = 2 /\ started
    /\ RunningJobs # {} /\ completed # {}
    /\ remaining_tasks > 1
    /\ \E s \in DOMAIN command_distribution : Len(command_distribution[s]) > 0

====
